---- MODULE Spec2Model ----
(***************************************************************************)
(* A model of the uni-sim pool engine (src/src/uniswap_v3_pool.py): the    *)
(* Position Ledger, the Tick Ledger, the price/tick conversion and the     *)
(* swap with its tick crossings.                                           *)
(*                                                                         *)
(* Numbers.  The source computes prices in floating point and keeps the    *)
(* sqrt price as an integer scaled by 2**96.  Here every real number is    *)
(* an exact rational, and the only rounding is the one the source writes   *)
(* itself, int(...) and math.floor(...).  The scale 2**96 is modelled by   *)
(* Q96 = 100, so a sqrt price is a whole number of hundredths and a price  *)
(* (sqrt price squared) a whole number of 1/PriceScale = 1/10000; the      *)
(* floors 0.1 and 0.05 are exact on that grid.  All intermediate values    *)
(* stay below 2^31.                                                        *)
(***************************************************************************)
EXTENDS Integers, Sequences, FiniteSets, TLC

VARIABLES
    sqrt_price_x96,  \* UniswapV3Pool.sqrt_price_x96, in units of 1/Q96
    tick,            \* UniswapV3Pool.tick
    liquidity,       \* UniswapV3Pool.liquidity (active liquidity)
    positions,       \* UniswapV3Pool.positions: <<owner, lower, upper>> -> amount
    ticks,           \* UniswapV3Pool.ticks: tick -> net liquidity delta
    last,            \* the outcome of the last call made on the pool
    conv,            \* a tick taken through the Price-Tick Converter and back
    agents,          \* Simulator.agents, each agent a record of its fields
    step_count,      \* Simulator.step_count
    price_history,   \* Simulator.price_history, prices in units of 1/PriceScale
    liquidity_history, \* Simulator.liquidity_history, in units of 1/10**9
    volume_history,  \* Simulator.volume_history
    run              \* the call of Simulator.run in progress and where it stands

poolVars == <<sqrt_price_x96, tick, liquidity, positions, ticks>>

simVars == <<agents, step_count, price_history, liquidity_history, volume_history, run>>

vars == <<sqrt_price_x96, tick, liquidity, positions, ticks, last, conv,
          agents, step_count, price_history, liquidity_history, volume_history, run>>

\* the pool object, as the methods below take and return it
Pool ==
    [sqrt_price_x96 |-> sqrt_price_x96, tick |-> tick, liquidity |-> liquidity,
     positions |-> positions, ticks |-> ticks]

----------------------------------------------------------------------------
(* Program constants *)

\* 2**96 in the source; scaled to 100 (see the header)
Q96 == 100

\* the descaled price (sqrt_price_x96 / Q96) ** 2 is p / PriceScale
PriceScale == Q96 * Q96

MIN_TICK == -887272

MAX_TICK == 887272

\* fee = 0.003 = FeeNum / FeeDen
FeeNum == 3

FeeDen == 1000

TickSpacing == 60

\* effective_liquidity = max(1000000, liquidity / 10**9)
MinEffectiveLiquidity == 1000000

LiquidityNorm == 1000000000

\* impact_factor = amount_in / (effective_liquidity * 100)
ImpactDivisor == 100

\* impact factors are counted in units of 1 / ImpactDen
ImpactDen == FeeDen * ImpactDivisor

\* min(impact_factor, 0.1)
MaxImpact == ImpactDen \div 10

\* if starting_price < 0.1, and new_price = max(0.1, new_price)
PRICE_FLOOR == PriceScale \div 10

\* min_price = 0.05
MIN_PRICE == PriceScale \div 20

----------------------------------------------------------------------------
(* Bounds of the model *)

\* swaps are taken while the sqrt price is at most this
MaxSqrtPrice == 35

\* add_position creates a new ledger entry while the ledger holds fewer than this
MaxPositions == 2

\* add_position is taken while the position's liquidity stays at most this
MaxPosLiquidity == 2

\* add_position and swap are taken while the active liquidity stays at most this
MaxLiquidity == 3

\* (owner, lower_tick, upper_tick) arguments of the calls of Spec: a range around
\* the price 0.1089, one that overlaps it from above, and a wide one that holds
\* every price from 0.01 up to the first range's upper tick
PoolArgs ==
    { <<"lp1", -22800, -21000>>, <<"lp1", -21540, -20400>>, <<"lp1", -46080, -21000>> }

\* amount arguments of add_position in Spec
AddAmounts == 1..MaxPosLiquidity

\* amount arguments of remove_position
RemoveAmounts == 0..(MaxPosLiquidity + 1)

\* amount_specified arguments of a swap
SwapAmounts == {-1, 0, 3000000, 20000000}

\* initial_sqrt_price: the prices 0.01 and 0.1089
InitialSqrtPrices == {10, 33}

\* initial_sqrt_price near the largest tick, in units of 2**58 * 2**96
CeilingInitialSqrtPrices == {56, 60}

\* (owner, lower_tick, upper_tick) arguments near the largest tick: a range that
\* ends below MAX_TICK and one that ends above it
CeilingArgs == { <<"lp1", 879960, 887220>>, <<"lp1", 879960, 900000>> }

\* swaps are called while the sqrt price, in units of 2**58 * 2**96, is at most this
MaxHighSqrtPrice == 70

\* (owner, lower_tick, upper_tick) arguments of the calls of SpecLedger: an aligned
\* range, the same range unaligned, an inverted one, an empty one, a second owner,
\* and a range whose lower tick is above the tick of the price 0.1089 (-22175)
\* as given and below it once aligned (-22200)
LedgerArgs ==
    { <<"lp1", -22800, -21000>>, <<"lp1", -22790, -20990>>,
      <<"lp1", -21000, -22800>>, <<"lp1", -21000, -21000>>,
      <<"lp2", -22800, -21000>>, <<"lp2", -22790, -20990>>,
      <<"lp1", -22150, -21000>> }

\* amount arguments of add_position in SpecLedger
LedgerAmounts == (-1)..MaxPosLiquidity

\* run is called while step_count would stay at most this
MaxSteps == 3

\* steps arguments of Simulator.run
RunSteps == 0..2

\* the names the agents are built with, by place of registration
AgentNames == <<"agent1", "agent2", "agent3", "agent4">>

\* the agent classes registered, in the orders they are registered in: a liquidity
\* agent of either class before or after a trader, and the two liquidity agents
Rosters ==
    { <<"LiquidityProvider", "RandomTrader">>, <<"MarketMaker", "RandomTrader">>,
      <<"RandomTrader", "LiquidityProvider">>, <<"LiquidityProvider", "MarketMaker">>,
      <<"TrendFollower", "RandomTrader">> }

\* the classes of the agents registered so far
KindsOf(registered) == [k \in 1..Len(registered) |-> registered[k].kind]

\* the classes an agent registered next can be of
NextKinds(registered) ==
    { r[Len(registered) + 1] : r \in { q \in Rosters :
          /\ Len(q) > Len(registered)
          /\ SubSeq(q, 1, Len(registered)) = KindsOf(registered) } }

\* initial_sqrt_price of the pool handed to the Simulator: the prices 0, 0.0025
\* (below the 0.01 the driver records at least) and 0.1089
DriverInitialSqrtPrices == {0, 5, 33}

\* rebalance_frequency the LiquidityProvider and the MarketMaker are built with
RebalanceFrequency == 2

\* initial_token0 and initial_token1 a trader is built with; the liquidity
\* agents are built with balances of 0
TraderBalance == 30000000

\* 1 / max_trade_pct of a RandomTrader (max_trade_pct = 0.1)
TradePctDen == 10

\* window_size a TrendFollower is built with
WindowSize == 2

\* 1 / threshold of a TrendFollower (threshold = 0.02)
ThresholdDen == 50

\* 1 / trade_size_pct of a TrendFollower (trade_size_pct = 0.2)
TrendPctDen == 5

\* (lower_tick, upper_tick, liquidity) of the Agent.add_position call a caller
\* makes on a liquidity agent before a run: ticks that are not aligned
SetupPosition == [lower_tick |-> -22790, upper_tick |-> -20990, liquidity |-> 1]

\* (owner, lower_tick, upper_tick) and amounts of the add_position calls a caller
\* makes on the pool before a run
SetupArgs == { <<"lp0", -22800, -21000>> }

SetupAmounts == {-1, 1}

\* what a RandomTrader draws: no trade, or a trade of max_amount either way
TraderDraws == {"none", "sell0", "sell1"}

\* Agent.add_position is called while the agent's list holds fewer positions
\* than this
MaxLocalPositions == 3

\* (lower_tick, upper_tick) arguments of the Agent.add_position calls of
\* SpecMirror: an aligned range, the same range unaligned, and a second aligned one
MirrorArgs == { <<-22800, -21000>>, <<-22790, -20990>>, <<-21540, -20400>> }

\* Agent.execute_swap is called while the trade history holds fewer entries
\* than this
MaxTrades == 3

\* amount arguments of the Agent.execute_swap calls of SpecTrade, on an agent
\* built with TraderBalance of each token: not positive, within the balance, and
\* above it
TradeAmounts == {-1, 0, 3000000, 20000000, 40000000}

\* the converter is taken through the ticks -MaxRoundTripTick..MaxRoundTripTick
MaxRoundTripTick == 60

\* tick arguments of get_sqrt_price_at_tick
RoundTripTicks == (0 - MaxRoundTripTick)..MaxRoundTripTick

\* (owner, lower_tick, upper_tick) arguments of the calls of SpecFloor: two ranges
\* that hold the price 0.01; the first ends below the tick of the floor price 0.1
FloorArgs ==
    { <<"lp1", -46080, -30000>>, <<"lp1", -46080, -21000>> }

----------------------------------------------------------------------------
(* Helpers *)

Max(a, b) == IF a >= b THEN a ELSE b

Min(a, b) == IF a <= b THEN a ELSE b

EmptyMap == [x \in {} |-> 0]

\* dict assignment d[k] = v
Put(d, k, v) == [x \in (DOMAIN d) \cup {k} |-> IF x = k THEN v ELSE d[x]]

\* del d[k]
Del(d, k) == [x \in (DOMAIN d) \ {k} |-> d[x]]

\* floor(a * b / c) for a, b >= 0 and c > 0, without forming a * b
MulDivFloor(a, b, c) == (a \div c) * b + ((a % c) * b) \div c

\* AlignTick without the alignment: the tick as given
AlignTick_AsGiven(t) == t

\* math.floor(t / tick_spacing) * tick_spacing
AlignTick(t) == (t \div TickSpacing) * TickSpacing

RECURSIVE SumOver(_, _)
SumOver(f, S) ==
    IF S = {} THEN 0
    ELSE LET x == CHOOSE y \in S : TRUE
         IN  f[x] + SumOver(f, S \ {x})

----------------------------------------------------------------------------
(* Price-Tick Converter *)

\* math.floor(math.log(s / Q96, math.sqrt(1.0001))) for s = 1..130, tabulated
TickTable ==
    << -92109, -78245, -70135, -64381, -59918, -56272, -53188, -50518, -48162, -46055,
       -44148, -42408, -40807, -39325, -37945, -36654, -35441, -34298, -33217, -32191,
       -31215, -30285, -29395, -28544, -27728, -26943, -26188, -25461, -24759, -24081,
       -23425, -22790, -22175, -21578, -20998, -20435, -19887, -19353, -18834, -18327,
       -17833, -17351, -16881, -16421, -15971, -15532, -15102, -14681, -14268, -13864,
       -13468, -13080, -12699, -12325, -11958, -11597, -11243, -10896, -10554, -10218,
       -9887, -9562, -9242, -8927, -8617, -8311, -8010, -7714, -7422, -7134,
       -6851, -6571, -6295, -6023, -5754, -5490, -5228, -4970, -4715, -4464,
       -4215, -3970, -3727, -3488, -3251, -3017, -2786, -2557, -2331, -2108,
       -1887, -1668, -1452, -1238, -1026, -817, -610, -405, -202, 0,
       199, 396, 591, 784, 975, 1165, 1353, 1539, 1723, 1906,
       2087, 2266, 2444, 2620, 2795, 2968, 3140, 3310, 3479, 3646,
       3812, 3977, 4140, 4302, 4463, 4622, 4780, 4937, 5093, 5247 >>

get_tick_at_sqrt_price(s) ==
    IF s <= 0 THEN MIN_TICK ELSE TickTable[s]

\* int(math.sqrt(n / d) * Q96) for a price n / d in units of 1 / PriceScale:
\* the largest r with r * r <= n / d
SqrtPriceOf(n, d) ==
    CHOOSE r \in 0..Len(TickTable) : r * r * d <= n /\ (r + 1) * (r + 1) * d > n

\* (sqrt_price_x96 / 2**96) ** 2, in units of 1 / PriceScale
PriceOf(s) == s * s

\* The round trip through the converter needs a sqrt price scale on which
\* neighbouring ticks differ: for it 2**96 is scaled to 2**30, where the sqrt
\* prices of neighbouring ticks near tick 0 are about 53000 apart.
FineQ96 == 1073741824

\* the ticks tabulated below run from -TableTicks to TableTicks
TableTicks == 125

\* int(1.0001 ** (t / 2) * FineQ96) for t = -TableTicks..TableTicks
SqrtPriceTable ==
    << 1067052198, 1067105550, 1067158904, 1067212260, 1067265620, 1067318981,
       1067372346, 1067425713, 1067479083, 1067532456, 1067585831, 1067639209,
       1067692590, 1067745973, 1067799359, 1067852748, 1067906139, 1067959533,
       1068012930, 1068066329, 1068119731, 1068173136, 1068226543, 1068279953,
       1068333366, 1068386781, 1068440199, 1068493620, 1068547043, 1068600469,
       1068653898, 1068707329, 1068760763, 1068814200, 1068867639, 1068921081,
       1068974526, 1069027973, 1069081423, 1069134876, 1069188331, 1069241790,
       1069295250, 1069348714, 1069402180, 1069455649, 1069509120, 1069562594,
       1069616071, 1069669550, 1069723033, 1069776517, 1069830005, 1069883495,
       1069936988, 1069990483, 1070043982, 1070097482, 1070150986, 1070204492,
       1070258001, 1070311513, 1070365027, 1070418544, 1070472063, 1070525586,
       1070579111, 1070632638, 1070686168, 1070739701, 1070793237, 1070846775,
       1070900316, 1070953860, 1071007406, 1071060955, 1071114507, 1071168062,
       1071221619, 1071275178, 1071328741, 1071382306, 1071435874, 1071489444,
       1071543017, 1071596593, 1071650172, 1071703753, 1071757337, 1071810923,
       1071864512, 1071918104, 1071971699, 1072025296, 1072078896, 1072132499,
       1072186104, 1072239712, 1072293322, 1072346936, 1072400552, 1072454170,
       1072507792, 1072561416, 1072615043, 1072668672, 1072722304, 1072775939,
       1072829576, 1072883216, 1072936859, 1072990505, 1073044153, 1073097804,
       1073151457, 1073205114, 1073258773, 1073312434, 1073366098, 1073419765,
       1073473435, 1073527107, 1073580782, 1073634460, 1073688140, 1073741824,
       1073795509, 1073849198, 1073902889, 1073956583, 1074010279, 1074063978,
       1074117680, 1074171385, 1074225092, 1074278802, 1074332514, 1074386230,
       1074439948, 1074493668, 1074547392, 1074601118, 1074654846, 1074708578,
       1074762312, 1074816049, 1074869788, 1074923530, 1074977275, 1075031023,
       1075084773, 1075138526, 1075192281, 1075246040, 1075299801, 1075353564,
       1075407330, 1075461100, 1075514871, 1075568646, 1075622423, 1075676202,
       1075729985, 1075783770, 1075837558, 1075891348, 1075945142, 1075998938,
       1076052736, 1076106538, 1076160341, 1076214148, 1076267958, 1076321770,
       1076375584, 1076429402, 1076483222, 1076537045, 1076590870, 1076644698,
       1076698529, 1076752363, 1076806199, 1076860038, 1076913880, 1076967724,
       1077021571, 1077075421, 1077129273, 1077183128, 1077236986, 1077290847,
       1077344710, 1077398576, 1077452444, 1077506316, 1077560190, 1077614066,
       1077667946, 1077721828, 1077775712, 1077829600, 1077883490, 1077937383,
       1077991278, 1078045177, 1078099078, 1078152981, 1078206887, 1078260796,
       1078314708, 1078368622, 1078422540, 1078476459, 1078530382, 1078584307,
       1078638235, 1078692165, 1078746099, 1078800035, 1078853973, 1078907915,
       1078961859, 1079015805, 1079069755, 1079123707, 1079177662, 1079231619,
       1079285580, 1079339543, 1079393508, 1079447477, 1079501448, 1079555421,
       1079609398, 1079663377, 1079717359, 1079771343, 1079825330, 1079879320,
       1079933313, 1079987308, 1080041306, 1080095307, 1080149310, 1080203316,
       1080257325, 1080311337, 1080365351, 1080419368, 1080473388 >>

\* for u = -TableTicks - 1 .. TableTicks + 1, the least sqrt price s for which
\* math.floor(math.log(s / FineQ96, math.sqrt(1.0001))) is at least u
TickThresholds ==
    << 1066998851, 1067052199, 1067105551, 1067158905, 1067212261, 1067265621,
       1067318982, 1067372347, 1067425714, 1067479084, 1067532457, 1067585832,
       1067639210, 1067692591, 1067745974, 1067799360, 1067852749, 1067906140,
       1067959534, 1068012931, 1068066330, 1068119732, 1068173137, 1068226544,
       1068279954, 1068333367, 1068386782, 1068440200, 1068493621, 1068547044,
       1068600470, 1068653899, 1068707330, 1068760764, 1068814201, 1068867640,
       1068921082, 1068974527, 1069027974, 1069081424, 1069134877, 1069188332,
       1069241791, 1069295251, 1069348715, 1069402181, 1069455650, 1069509121,
       1069562595, 1069616072, 1069669551, 1069723034, 1069776518, 1069830006,
       1069883496, 1069936989, 1069990484, 1070043983, 1070097483, 1070150987,
       1070204493, 1070258002, 1070311514, 1070365028, 1070418545, 1070472064,
       1070525587, 1070579112, 1070632639, 1070686169, 1070739702, 1070793238,
       1070846776, 1070900317, 1070953861, 1071007407, 1071060956, 1071114508,
       1071168063, 1071221620, 1071275179, 1071328742, 1071382307, 1071435875,
       1071489445, 1071543018, 1071596594, 1071650173, 1071703754, 1071757338,
       1071810924, 1071864513, 1071918105, 1071971700, 1072025297, 1072078897,
       1072132500, 1072186105, 1072239713, 1072293323, 1072346937, 1072400553,
       1072454171, 1072507793, 1072561417, 1072615044, 1072668673, 1072722305,
       1072775940, 1072829577, 1072883217, 1072936860, 1072990506, 1073044154,
       1073097805, 1073151458, 1073205115, 1073258774, 1073312435, 1073366099,
       1073419766, 1073473436, 1073527108, 1073580783, 1073634461, 1073688141,
       1073741824, 1073795510, 1073849199, 1073902890, 1073956584, 1074010280,
       1074063979, 1074117681, 1074171386, 1074225093, 1074278803, 1074332515,
       1074386231, 1074439949, 1074493669, 1074547393, 1074601119, 1074654847,
       1074708579, 1074762313, 1074816050, 1074869789, 1074923531, 1074977276,
       1075031024, 1075084774, 1075138527, 1075192282, 1075246041, 1075299802,
       1075353565, 1075407331, 1075461101, 1075514872, 1075568647, 1075622424,
       1075676203, 1075729986, 1075783771, 1075837559, 1075891349, 1075945143,
       1075998939, 1076052737, 1076106539, 1076160342, 1076214149, 1076267959,
       1076321771, 1076375585, 1076429403, 1076483223, 1076537046, 1076590871,
       1076644699, 1076698530, 1076752364, 1076806200, 1076860039, 1076913881,
       1076967725, 1077021572, 1077075422, 1077129274, 1077183129, 1077236987,
       1077290848, 1077344711, 1077398577, 1077452445, 1077506317, 1077560191,
       1077614067, 1077667947, 1077721829, 1077775713, 1077829601, 1077883491,
       1077937384, 1077991279, 1078045178, 1078099079, 1078152982, 1078206888,
       1078260797, 1078314709, 1078368623, 1078422541, 1078476460, 1078530383,
       1078584308, 1078638236, 1078692166, 1078746100, 1078800036, 1078853974,
       1078907916, 1078961860, 1079015806, 1079069756, 1079123708, 1079177663,
       1079231620, 1079285581, 1079339544, 1079393509, 1079447478, 1079501449,
       1079555422, 1079609399, 1079663378, 1079717360, 1079771344, 1079825331,
       1079879321, 1079933314, 1079987309, 1080041307, 1080095308, 1080149311,
       1080203317, 1080257326, 1080311338, 1080365352, 1080419369, 1080473389,
       1080527411 >>

\* max(-887272, min(tick, 887272))
ClampTick(t) == Max(MIN_TICK, Min(t, MAX_TICK))

\* get_sqrt_price_at_tick with 1.0001 ** tick in place of 1.0001 ** (tick / 2)
get_sqrt_price_at_tick_NoHalf(t) ==
    SqrtPriceTable[2 * ClampTick(t) + TableTicks + 1]

\* int(1.0001 ** (tick / 2) * 2**96) on the fine scale
get_sqrt_price_at_tick(t) ==
    SqrtPriceTable[ClampTick(t) + TableTicks + 1]

\* get_tick_at_sqrt_price on the fine scale
get_tick_at_fine_sqrt_price(s) ==
    IF s <= 0 THEN MIN_TICK
    ELSE CHOOSE u \in (0 - TableTicks - 1)..TableTicks :
             /\ TickThresholds[u + TableTicks + 2] <= s
             /\ s < TickThresholds[u + TableTicks + 3]

----------------------------------------------------------------------------
(* Construction *)

\* op: the method called; raised: the exception it raised, "" for none; ret: the
\* tuple a swap returned; crossed: the ticks a swap handed to cross_tick, in call order
NoCall == [op |-> "init", raised |-> "", ret |-> <<0, 0>>, crossed |-> <<>>]

\* stage: "tick" when only the tick is chosen, "sqrt" once get_sqrt_price_at_tick
\* was applied to it, "back" once get_tick_at_sqrt_price was applied to the result
NoConversion == [stage |-> "none", tick |-> 0, sqrt_price |-> 0, back |-> 0]

\* the value of a field that holds a pool, before one is noted in it
NoPool ==
    [sqrt_price_x96 |-> 0, tick |-> 0, liquidity |-> 0, positions |-> EmptyMap,
     ticks |-> EmptyMap]

\* pc: "idle" outside run, "step" at the head of the loop body, "agents" inside
\* the loop over the agents; steps: the argument of run; step: the loop variable
\* (iterations completed); entered: step_count when run was called; initial: the
\* pool when run was called; price,
\* step_volume: the locals of the loop body; acted: the agents whose act was
\* invoked in this step, in order; failed: a remove_position raised inside the
\* last act invoked; failures: the acts of this run in which one did; raised: the
\* exception that left run, "" for none
NoRun ==
    [pc |-> "idle", steps |-> 0, step |-> 0, entered |-> 0, initial |-> NoPool,
     price |-> 0,
     step_volume |-> 0, acted |-> <<>>, failed |-> FALSE, failures |-> 0,
     raised |-> ""]

\* Simulator.__init__
SimulatorInit ==
    /\ agents = <<>>
    /\ step_count = 0
    /\ price_history = <<>>
    /\ liquidity_history = <<>>
    /\ volume_history = <<>>
    /\ run = NoRun

\* UniswapV3Pool.__init__
Init ==
    /\ sqrt_price_x96 \in InitialSqrtPrices
    /\ liquidity = 0
    /\ tick = get_tick_at_sqrt_price(sqrt_price_x96)
    /\ positions = EmptyMap
    /\ ticks = EmptyMap
    /\ last = NoCall
    /\ conv = NoConversion
    /\ SimulatorInit

----------------------------------------------------------------------------
(* Tick & Position Ledger: each method maps the pool (self) to the pool it leaves *)

\* lower_tick <= self.tick < upper_tick
InRange(self, lower_tick, upper_tick) ==
    lower_tick <= self.tick /\ self.tick < upper_tick

\* self.positions after the "Update position" step of add_position
PositionsAfterAdd(self, key, amount) ==
    IF key \in DOMAIN self.positions
    THEN [self.positions EXCEPT ![key] = @ + amount]
    ELSE Put(self.positions, key, amount)

\* TicksAfterAdd without the line self.ticks[upper_tick] -= amount
TicksAfterAdd_NoUpper(self, lower, upper, amount) ==
    LET t0 == IF lower \in DOMAIN self.ticks THEN self.ticks ELSE Put(self.ticks, lower, 0)
        t1 == IF upper \in DOMAIN t0 THEN t0 ELSE Put(t0, upper, 0)
    IN  [t1 EXCEPT ![lower] = @ + amount]

\* self.ticks after the "Update tick data" step of add_position
TicksAfterAdd(self, lower, upper, amount) ==
    LET t0 == IF lower \in DOMAIN self.ticks THEN self.ticks ELSE Put(self.ticks, lower, 0)
        t1 == IF upper \in DOMAIN t0 THEN t0 ELSE Put(t0, upper, 0)
        t2 == [t1 EXCEPT ![lower] = @ + amount]
    IN  [t2 EXCEPT ![upper] = @ - amount]

\* add_position with the in-range test made on the ticks as given
add_position_RawRange(self, owner, lower_tick, upper_tick, amount) ==
    LET lower == AlignTick(lower_tick)
        upper == AlignTick(upper_tick)
        key   == <<owner, lower, upper>>
    IN  [self EXCEPT
           !.positions = PositionsAfterAdd(self, key, amount),
           !.ticks = TicksAfterAdd(self, lower, upper, amount),
           !.liquidity = IF InRange(self, lower_tick, upper_tick) THEN @ + amount ELSE @]

add_position(self, owner, lower_tick, upper_tick, amount) ==
    LET lower == AlignTick(lower_tick)
        upper == AlignTick(upper_tick)
        key   == <<owner, lower, upper>>
    IN  [self EXCEPT
           !.positions = PositionsAfterAdd(self, key, amount),
           !.ticks = TicksAfterAdd(self, lower, upper, amount),
           !.liquidity = IF InRange(self, lower, upper) THEN @ + amount ELSE @]

\* the check that makes remove_position raise ValueError
InvalidPosition(self, key, amount) ==
    key \notin DOMAIN self.positions \/ self.positions[key] < amount

\* self.positions after the "Update position" step of remove_position
PositionsAfterRemove(self, key, amount) ==
    IF self.positions[key] - amount = 0
    THEN Del(self.positions, key)
    ELSE [self.positions EXCEPT ![key] = @ - amount]

\* TicksAfterRemove that deletes the entries of the two ticks when their net
\* delta has come to 0
TicksAfterRemove_DropZero(self, lower_tick, upper_tick, amount) ==
    LET t1 == [self.ticks EXCEPT ![lower_tick] = @ - amount]
        t2 == [t1 EXCEPT ![upper_tick] = @ + amount]
    IN  [t \in {u \in DOMAIN t2 : u \notin {lower_tick, upper_tick} \/ t2[u] # 0} |-> t2[t]]

\* TicksAfterRemove with the upper tick changed like the lower one
TicksAfterRemove_SameSign(self, lower_tick, upper_tick, amount) ==
    LET t1 == [self.ticks EXCEPT ![lower_tick] = @ - amount]
    IN  [t1 EXCEPT ![upper_tick] = @ - amount]

\* self.ticks after the "Update tick data" step of remove_position
TicksAfterRemove(self, lower_tick, upper_tick, amount) ==
    LET t1 == [self.ticks EXCEPT ![lower_tick] = @ - amount]
    IN  [t1 EXCEPT ![upper_tick] = @ + amount]

\* remove_position with the check made after the tick data was updated
remove_position_LateCheck(self, owner, lower_tick, upper_tick, amount) ==
    LET key == <<owner, lower_tick, upper_tick>>
        written == IF lower_tick \in DOMAIN self.ticks /\ upper_tick \in DOMAIN self.ticks
                   THEN [self EXCEPT !.ticks = TicksAfterRemove(self, lower_tick,
                                                                upper_tick, amount)]
                   ELSE self
    IN  IF InvalidPosition(self, key, amount)
        THEN [self |-> written, raised |-> "ValueError"]
        ELSE [self |-> [written EXCEPT
                          !.positions = PositionsAfterRemove(self, key, amount),
                          !.liquidity = IF InRange(self, lower_tick, upper_tick)
                                        THEN @ - amount ELSE @],
              raised |-> ""]

\* the pool remove_position leaves, and the exception it raised ("" for none)
remove_position(self, owner, lower_tick, upper_tick, amount) ==
    LET key == <<owner, lower_tick, upper_tick>>
    IN  IF InvalidPosition(self, key, amount)
        THEN [self |-> self, raised |-> "ValueError"]
        ELSE IF lower_tick \notin DOMAIN self.ticks \/ upper_tick \notin DOMAIN self.ticks
        THEN \* self.ticks[...] raises after self.positions was written
             [self |-> [self EXCEPT !.positions = PositionsAfterRemove(self, key, amount)],
              raised |-> "KeyError"]
        ELSE [self |-> [self EXCEPT
                          !.positions = PositionsAfterRemove(self, key, amount),
                          !.ticks = TicksAfterRemove(self, lower_tick, upper_tick, amount),
                          !.liquidity = IF InRange(self, lower_tick, upper_tick)
                                        THEN @ - amount ELSE @],
              raised |-> ""]

----------------------------------------------------------------------------
(* Swap Engine *)

\* IsNoOp without the test of self.liquidity
IsNoOp_AmountOnly(self, amount_specified) == amount_specified <= 0

\* if amount_specified <= 0 or self.liquidity <= 0: return (0, 0)
IsNoOp(self, amount_specified) == amount_specified <= 0 \/ self.liquidity <= 0

\* amount_in = amount_specified * (1 - self.fee), in whole token units
amount_in(amount_specified) == MulDivFloor(amount_specified, FeeDen - FeeNum, FeeDen)

\* effective_liquidity = max(1000000, self.liquidity / 10**9)
effective_liquidity(self) == Max(MinEffectiveLiquidity, self.liquidity \div LiquidityNorm)

\* impact_factor without the cap min(impact_factor, 0.1)
impact_factor_Uncapped(self, amount_specified) ==
    MulDivFloor(amount_specified, FeeDen - FeeNum, effective_liquidity(self))

\* min(amount_in / (effective_liquidity * 100), 0.1), in units of 1 / ImpactDen:
\* amount_specified * (FeeDen - FeeNum) / effective_liquidity, capped
impact_factor(self, amount_specified) ==
    Min(MulDivFloor(amount_specified, FeeDen - FeeNum, effective_liquidity(self)),
        MaxImpact)

\* starting_price after the clamp of a price below 0.1, in units of 1 / PriceScale
starting_price(self) ==
    IF PriceOf(self.sqrt_price_x96) < PRICE_FLOOR
    THEN Max(PriceOf(self.sqrt_price_x96), MIN_PRICE)
    ELSE PriceOf(self.sqrt_price_x96)

\* new_price with the two directions exchanged
new_price_Reversed(zero_for_one, start, impact) ==
    IF zero_for_one
    THEN start * (ImpactDen + impact)
    ELSE Max(PRICE_FLOOR * ImpactDen, start * (ImpactDen - impact))

\* new_price * ImpactDen, in units of 1 / PriceScale
new_price(zero_for_one, start, impact) ==
    IF zero_for_one
    THEN Max(PRICE_FLOOR * ImpactDen, start * (ImpactDen - impact))
    ELSE start * (ImpactDen + impact)

\* the value the swap writes to self.sqrt_price_x96
new_sqrt_price(zero_for_one, start, impact) ==
    IF zero_for_one
    THEN Max(1, SqrtPriceOf(new_price(zero_for_one, start, impact), ImpactDen))
    ELSE SqrtPriceOf(new_price(zero_for_one, start, impact), ImpactDen)

\* avg_price = (starting_price + new_price) / 2, cut to a whole number of 1 / PriceScale
avg_price(zero_for_one, start, impact) ==
    (start * ImpactDen + new_price(zero_for_one, start, impact)) \div (2 * ImpactDen)

\* int(token1_out), token1_out = amount_in * avg_price
token1_out(amount_specified, avg) ==
    MulDivFloor(amount_in(amount_specified), avg, PriceScale)

\* int(token0_out), token0_out = amount_in / avg_price if avg_price > 0 else 0
token0_out(amount_specified, avg) ==
    IF avg > 0 THEN MulDivFloor(amount_in(amount_specified), PriceScale, avg) ELSE 0

\* swap_return with the two tuples exchanged
swap_return_Exchanged(zero_for_one, amount_specified, avg) ==
    IF zero_for_one
    THEN <<0 - token0_out(amount_specified, avg), amount_specified>>
    ELSE <<amount_specified, 0 - token1_out(amount_specified, avg)>>

\* the tuple the swap returns
swap_return(zero_for_one, amount_specified, avg) ==
    IF zero_for_one
    THEN <<amount_specified, 0 - token1_out(amount_specified, avg)>>
    ELSE <<0 - token0_out(amount_specified, avg), amount_specified>>

\* cross_tick that also sets the net delta of the tick it crossed to 0
cross_tick_ClearsTick(self, t) ==
    LET net_liquidity_change == IF t \in DOMAIN self.ticks THEN self.ticks[t] ELSE 0
        moved == IF self.tick < t
                 THEN self.liquidity + net_liquidity_change
                 ELSE IF net_liquidity_change > self.liquidity
                      THEN 0
                      ELSE self.liquidity - net_liquidity_change
    IN  [self EXCEPT !.liquidity = Max(0, moved),
                     !.ticks = IF t \in DOMAIN self.ticks
                               THEN [self.ticks EXCEPT ![t] = 0] ELSE self.ticks]

\* cross_tick without the final self.liquidity = max(0, self.liquidity)
cross_tick_NoClamp(self, t) ==
    LET net_liquidity_change == IF t \in DOMAIN self.ticks THEN self.ticks[t] ELSE 0
        moved == IF self.tick < t
                 THEN self.liquidity + net_liquidity_change
                 ELSE IF net_liquidity_change > self.liquidity
                      THEN 0
                      ELSE self.liquidity - net_liquidity_change
    IN  [self EXCEPT !.liquidity = moved]

\* the pool cross_tick(t) leaves; self.tick is the tick the swap has already written
cross_tick(self, t) ==
    LET net_liquidity_change == IF t \in DOMAIN self.ticks THEN self.ticks[t] ELSE 0
        moved == IF self.tick < t
                 THEN self.liquidity + net_liquidity_change
                 ELSE IF net_liquidity_change > self.liquidity
                      THEN 0
                      ELSE self.liquidity - net_liquidity_change
    IN  [self EXCEPT !.liquidity = Max(0, moved)]

\* sorted(self.ticks.keys(), reverse=...)
RECURSIVE sorted_ticks(_, _)
sorted_ticks(S, reverse) ==
    IF S = {} THEN <<>>
    ELSE LET x == IF reverse
                  THEN CHOOSE y \in S : \A z \in S : z <= y
                  ELSE CHOOSE y \in S : \A z \in S : y <= z
         IN  <<x>> \o sorted_ticks(S \ {x}, reverse)

\* the ticks the loops of the swap hand to cross_tick, in call order; self.tick is
\* the new tick
crossed_ticks(self, zero_for_one, old_tick) ==
    IF old_tick = self.tick THEN <<>>
    ELSE LET Crossed(t) == IF zero_for_one
                           THEN old_tick >= t /\ t > self.tick
                           ELSE old_tick <= t /\ t < self.tick
         IN  SelectSeq(sorted_ticks(DOMAIN self.ticks, zero_for_one), Crossed)

\* the pool after cross_tick was called on each tick of seq in turn
RECURSIVE cross_all(_, _)
cross_all(self, seq) ==
    IF seq = <<>> THEN self
    ELSE cross_all(cross_tick(self, Head(seq)), Tail(seq))

\* swap_simple without the line self.tick = self.get_tick_at_sqrt_price(...)
swap_simple_StaleTick(self, zero_for_one, amount_specified) ==
    IF IsNoOp(self, amount_specified)
    THEN [self |-> self, ret |-> <<0, 0>>, crossed |-> <<>>]
    ELSE LET start == starting_price(self)
             impact == impact_factor(self, amount_specified)
             moved == [self EXCEPT
                         !.sqrt_price_x96 = new_sqrt_price(zero_for_one, start, impact)]
         IN  [self |-> moved,
              ret |-> swap_return(zero_for_one, amount_specified,
                                  avg_price(zero_for_one, start, impact)),
              crossed |-> <<>>]

\* the pool swap_simple leaves, the tuple it returns and the ticks it crossed
swap_simple(self, zero_for_one, amount_specified) ==
    IF IsNoOp(self, amount_specified)
    THEN [self |-> self, ret |-> <<0, 0>>, crossed |-> <<>>]
    ELSE LET start == starting_price(self)
             impact == impact_factor(self, amount_specified)
             moved == [self EXCEPT
                         !.sqrt_price_x96 = new_sqrt_price(zero_for_one, start, impact),
                         !.tick = get_tick_at_sqrt_price(
                                      new_sqrt_price(zero_for_one, start, impact))]
             crossed == crossed_ticks(moved, zero_for_one, self.tick)
         IN  [self |-> cross_all(moved, crossed),
              ret |-> swap_return(zero_for_one, amount_specified,
                                  avg_price(zero_for_one, start, impact)),
              crossed |-> crossed]

----------------------------------------------------------------------------
(* Prices near the largest tick *)

\* A sqrt price near the one of MAX_TICK is about 2**64 times 2**96. For these
\* prices 2**96 is scaled to 2**-58, so that a sqrt price is a whole number of
\* 2**58: the sqrt price 64 is the ratio 2**64, whose tick is MAX_TICK.

\* math.floor(math.log(s * 2**58, math.sqrt(1.0001))) for s = 1..130
HighTickTable ==
    << 804090, 817954, 826064, 831818, 836281, 839927, 843011, 845681,
       848037, 850144, 852051, 853791, 855392, 856874, 858254, 859545,
       860758, 861901, 862982, 864008, 864984, 865914, 866803, 867655,
       868471, 869256, 870010, 870738, 871440, 872118, 872774, 873409,
       874024, 874621, 875201, 875764, 876312, 876846, 877365, 877872,
       878366, 878848, 879318, 879778, 880227, 880667, 881097, 881518,
       881931, 882335, 882731, 883119, 883500, 883874, 884241, 884601,
       884955, 885303, 885645, 885981, 886312, 886637, 886957, 887272,
       887582, 887888, 888188, 888485, 888777, 889065, 889348, 889628,
       889904, 890176, 890445, 890709, 890971, 891229, 891484, 891735,
       891984, 892229, 892472, 892711, 892948, 893182, 893413, 893642,
       893868, 894091, 894312, 894531, 894747, 894961, 895173, 895382,
       895589, 895794, 895997, 896198, 896397, 896595, 896790, 896983,
       897174, 897364, 897552, 897738, 897922, 898105, 898286, 898465,
       898643, 898819, 898994, 899167, 899339, 899509, 899678, 899845,
       900011, 900176, 900339, 900501, 900662, 900821, 900979, 901136,
       901292, 901446 >>

\* get_tick_at_sqrt_price on this scale: price_value > 0, and the value of
\* math.floor is returned as it is
get_tick_at_high_sqrt_price(s) ==
    IF s <= 0 THEN MIN_TICK ELSE HighTickTable[s]

\* swap_simple(False, amount_specified) on this scale. The price is far above 0.1,
\* so starting_price is the pool's price, and int(sqrt(starting_price *
\* (1 + impact_factor)) * 2**96) does not depend on the scale. amount_in /
\* avg_price is below 1, so int(token0_out) is 0.
swap_simple_high(self, amount_specified) ==
    IF IsNoOp(self, amount_specified)
    THEN [self |-> self, ret |-> <<0, 0>>, crossed |-> <<>>]
    ELSE LET start == PriceOf(self.sqrt_price_x96)
             impact == impact_factor(self, amount_specified)
             moved == [self EXCEPT
                         !.sqrt_price_x96 = new_sqrt_price(FALSE, start, impact),
                         !.tick = get_tick_at_high_sqrt_price(
                                      new_sqrt_price(FALSE, start, impact))]
             crossed == crossed_ticks(moved, FALSE, self.tick)
         IN  [self |-> cross_all(moved, crossed),
              ret |-> <<0, amount_specified>>,
              crossed |-> crossed]


----------------------------------------------------------------------------
(* Calls on the pool *)

\* the pool variables take the fields of the pool a method left
Becomes(self) ==
    /\ sqrt_price_x96' = self.sqrt_price_x96
    /\ tick' = self.tick
    /\ liquidity' = self.liquidity
    /\ positions' = self.positions
    /\ ticks' = self.ticks

AddCall(owner, lower_tick, upper_tick, amount) ==
    LET after == add_position(Pool, owner, lower_tick, upper_tick, amount)
    IN  /\ Cardinality(DOMAIN after.positions) <= MaxPositions
        /\ \A k \in DOMAIN after.positions :
               /\ after.positions[k] <= MaxPosLiquidity
               /\ after.positions[k] >= 0 - MaxPosLiquidity
        /\ after.liquidity <= MaxLiquidity
        /\ Becomes(after)
        /\ last' = [NoCall EXCEPT !.op = "add"]

RemoveCall(owner, lower_tick, upper_tick, amount) ==
    LET out == remove_position(Pool, owner, lower_tick, upper_tick, amount)
    IN  /\ Becomes(out.self)
        /\ last' = [NoCall EXCEPT !.op = "remove", !.raised = out.raised]

SwapCall(zero_for_one, amount_specified) ==
    LET out == swap_simple(Pool, zero_for_one, amount_specified)
    IN  /\ sqrt_price_x96 <= MaxSqrtPrice
        /\ out.self.liquidity <= MaxLiquidity
        /\ Becomes(out.self)
        /\ last' = [NoCall EXCEPT !.op = "swap", !.ret = out.ret, !.crossed = out.crossed]

----------------------------------------------------------------------------
(* Agents: each method maps the agent and the pool to what it leaves *)

\* the classes that are built with balances and hold no positions
Traders == {"RandomTrader", "TrendFollower"}

\* Agent.__init__ and the subclasses' __init__ (price_history: the prices a
\* TrendFollower has seen)
NewAgent(kind, name) ==
    [kind |-> kind, name |-> name,
     token0_balance |-> IF kind \in Traders THEN TraderBalance ELSE 0,
     token1_balance |-> IF kind \in Traders THEN TraderBalance ELSE 0,
     positions |-> <<>>,
     trade_history |-> <<>>,
     price_history |-> <<>>,
     rebalance_frequency |-> RebalanceFrequency,
     last_rebalance |-> 0 - RebalanceFrequency]

\* what a method of an agent leaves: the agent, the pool, the exception that left
\* the method ("" for none) and whether a remove_position raised inside it
Outcome(agent, pool, raised, failed) ==
    [agent |-> agent, pool |-> pool, raised |-> raised, failed |-> failed]

\* list.pop(i), i counted from 1
Pop(seq, i) == SubSeq(seq, 1, i - 1) \o SubSeq(seq, i + 1, Len(seq))

\* Agent.add_position
Agent_add_position(agent, pool, lower_tick, upper_tick, liq) ==
    Outcome([agent EXCEPT !.positions =
                 Append(@, [lower_tick |-> lower_tick, upper_tick |-> upper_tick,
                            liquidity |-> liq])],
            add_position(pool, agent.name, lower_tick, upper_tick, liq),
            "", FALSE)

\* Agent.remove_position, position_index counted from 1
Agent_remove_position(agent, pool, position_index) ==
    IF position_index < 1 \/ position_index > Len(agent.positions)
    THEN Outcome(agent, pool, "", FALSE)
    ELSE LET position == agent.positions[position_index]
             out == remove_position(pool, agent.name, position.lower_tick,
                                    position.upper_tick, position.liquidity)
         IN  IF out.raised # ""
             THEN Outcome(agent, out.self, out.raised, TRUE)
             ELSE Outcome([agent EXCEPT !.positions = Pop(@, position_index)],
                          out.self, "", FALSE)

\* the entry execute_swap appends to self.trade_history
TradeRecord(agent, pool, zero_for_one, ret) ==
    [timestamp |-> Len(agent.trade_history),
     zero_for_one |-> zero_for_one,
     amount_in |-> IF zero_for_one THEN ret[1] ELSE ret[2],
     amount_out |-> IF zero_for_one THEN 0 - ret[2] ELSE 0 - ret[1],
     price |-> PriceOf(pool.sqrt_price_x96)]

\* the value Agent.execute_swap returns
execute_swap_result(agent, zero_for_one, amount) ==
    IF zero_for_one /\ agent.token0_balance < amount THEN FALSE
    ELSE IF ~zero_for_one /\ agent.token1_balance < amount THEN FALSE
    ELSE TRUE

\* execute_swap without the two tests of the balance
execute_swap_Unchecked(agent, pool, zero_for_one, amount) ==
    LET out == swap_simple(pool, zero_for_one, amount)
    IN  Outcome([agent EXCEPT
                   !.token0_balance = @ - out.ret[1],
                   !.token1_balance = @ - out.ret[2],
                   !.trade_history =
                       Append(@, TradeRecord(agent, out.self, zero_for_one, out.ret))],
                out.self, "", FALSE)

\* Agent.execute_swap
execute_swap(agent, pool, zero_for_one, amount) ==
    IF zero_for_one /\ agent.token0_balance < amount
    THEN Outcome(agent, pool, "", FALSE)
    ELSE IF ~zero_for_one /\ agent.token1_balance < amount
    THEN Outcome(agent, pool, "", FALSE)
    ELSE LET out == swap_simple(pool, zero_for_one, amount)
         IN  Outcome([agent EXCEPT
                        !.token0_balance = @ - out.ret[1],
                        !.token1_balance = @ - out.ret[2],
                        !.trade_history =
                            Append(@, TradeRecord(agent, out.self, zero_for_one,
                                                  out.ret))],
                     out.self, "", FALSE)

\* RandomTrader.act, draw standing for the three calls of random
RandomTrader_act(agent, pool, step, draw) ==
    IF draw = "none" THEN Outcome(agent, pool, "", FALSE)
    ELSE LET zero_for_one == (draw = "sell0")
             max_amount == IF zero_for_one
                           THEN agent.token0_balance \div TradePctDen
                           ELSE agent.token1_balance \div TradePctDen
         IN  IF max_amount > 0
             THEN execute_swap(agent, pool, zero_for_one, max_amount)
             ELSE Outcome(agent, pool, "", FALSE)

\* TrendFollower.act: the price is noted; with window_size prices noted the change
\* since the first of them is divided by that price, which raises when it is 0
TrendFollower_act(agent, pool, step) ==
    LET current_price == PriceOf(pool.sqrt_price_x96)
        noted == [agent EXCEPT !.price_history = Append(@, current_price)]
        start_price ==
            noted.price_history[Len(noted.price_history) + 1 - WindowSize]
    IN  IF Len(noted.price_history) < WindowSize
        THEN Outcome(noted, pool, "", FALSE)
        ELSE IF start_price = 0
        THEN Outcome(noted, pool, "ZeroDivisionError", FALSE)
        ELSE IF (current_price - start_price) * ThresholdDen > start_price
        THEN IF noted.token1_balance \div TrendPctDen > 0
             THEN execute_swap(noted, pool, FALSE, noted.token1_balance \div TrendPctDen)
             ELSE Outcome(noted, pool, "", FALSE)
        ELSE IF (start_price - current_price) * ThresholdDen > start_price
        THEN IF noted.token0_balance \div TrendPctDen > 0
             THEN execute_swap(noted, pool, TRUE, noted.token0_balance \div TrendPctDen)
             ELSE Outcome(noted, pool, "", FALSE)
        ELSE Outcome(noted, pool, "", FALSE)

\* for i in range(len(self.positions) - 1, -1, -1): self.remove_position(i, pool),
\* from index i down, left by the first remove_position that raises
RECURSIVE RemoveFrom(_, _, _)
RemoveFrom(agent, pool, i) ==
    IF i < 1 THEN Outcome(agent, pool, "", FALSE)
    ELSE LET out == Agent_remove_position(agent, pool, i)
         IN  IF out.raised # "" THEN out
             ELSE RemoveFrom(out.agent, out.pool, i - 1)

\* the same loop with each remove_position inside try / except Exception: pass
RECURSIVE RemoveFromTolerant(_, _, _)
RemoveFromTolerant(agent, pool, i) ==
    IF i < 1 THEN Outcome(agent, pool, "", FALSE)
    ELSE LET out == Agent_remove_position(agent, pool, i)
             rest == RemoveFromTolerant(out.agent, out.pool, i - 1)
         IN  Outcome(rest.agent, rest.pool, "", out.failed \/ rest.failed)

\* max(0.1, current_price), in units of 1 / PriceScale
rebalance_price(pool) == Max(PRICE_FLOOR, PriceOf(pool.sqrt_price_x96))

\* math.floor(math.log(math.sqrt(lower_price) / math.sqrt(1.0001), math.sqrt(1.0001)))
\* for lower_price = max(0.01, 0.95 * max(0.1, (s / Q96) ** 2)), s = 1..48: the
\* lower tick of a position of width 0.1 around the price, before alignment
LowerTickTable ==
    << -23541, -23541, -23541, -23541, -23541, -23541, -23541, -23541,
       -23541, -23541, -23541, -23541, -23541, -23541, -23541, -23541,
       -23541, -23541, -23541, -23541, -23541, -23541, -23541, -23541,
       -23541, -23541, -23541, -23541, -23541, -23541, -23541, -23304,
       -22689, -22092, -21512, -20949, -20400, -19867, -19348, -18841,
       -18347, -17865, -17395, -16935, -16485, -16046, -15616, -15195 >>

\* the same for upper_price = max(1.01 * lower_price, 1.05 * max(0.1, (s / Q96) ** 2))
UpperTickTable ==
    << -22541, -22541, -22541, -22541, -22541, -22541, -22541, -22541,
       -22541, -22541, -22541, -22541, -22541, -22541, -22541, -22541,
       -22541, -22541, -22541, -22541, -22541, -22541, -22541, -22541,
       -22541, -22541, -22541, -22541, -22541, -22541, -22541, -22303,
       -21688, -21091, -20511, -19948, -19400, -18866, -18347, -17840,
       -17346, -16864, -16394, -15934, -15485, -15045, -14615, -14194 >>

\* max(1, int(value_in_token0 / 2 * 10**6)) for value_in_token0 =
\* min(token0_balance, token1_balance / current_price)
liquidity_amount(agent, pool) ==
    LET value_in_token0 ==
            Min(agent.token0_balance,
                MulDivFloor(agent.token1_balance, PriceScale, rebalance_price(pool)))
    IN  Max(1, (value_in_token0 * 1000000) \div 2)

\* the part of a rebalance that creates the position around the current price
\* (num_positions = 1) and notes the step; below the sqrt price 1 / Q96 the price
\* used is the floor 0.1, as at 1 / Q96
AddAround(agent, pool, step) ==
    LET lower_tick == AlignTick(LowerTickTable[Max(1, pool.sqrt_price_x96)])
        upper_tick == AlignTick(UpperTickTable[Max(1, pool.sqrt_price_x96)])
        out == IF lower_tick < upper_tick /\ upper_tick - lower_tick >= TickSpacing
               THEN Agent_add_position(agent, pool, lower_tick, upper_tick,
                                       liquidity_amount(agent, pool))
               ELSE Outcome(agent, pool, "", FALSE)
    IN  Outcome([out.agent EXCEPT !.last_rebalance = step], out.pool, "", FALSE)

\* LiquidityProvider.act without the try / except around the rebalance
LiquidityProvider_act_NoCatch(agent, pool, step) ==
    IF step - agent.last_rebalance < agent.rebalance_frequency
    THEN Outcome(agent, pool, "", FALSE)
    ELSE LET removed == RemoveFrom(agent, pool, Len(agent.positions))
         IN  IF removed.raised # ""
             THEN removed
             ELSE AddAround(removed.agent, removed.pool, step)

\* LiquidityProvider.act: an exception raised inside the rebalance is caught
LiquidityProvider_act(agent, pool, step) ==
    IF step - agent.last_rebalance < agent.rebalance_frequency
    THEN Outcome(agent, pool, "", FALSE)
    ELSE LET removed == RemoveFrom(agent, pool, Len(agent.positions))
         IN  IF removed.raised # ""
             THEN Outcome(removed.agent, removed.pool, "", TRUE)
             ELSE AddAround(removed.agent, removed.pool, step)

\* MarketMaker.act (the price history it keeps is read only once it holds
\* vol_window = 50 prices, and is left out; with base_width = 0.05 and the
\* inventory ratio of an agent without balances, 0.5, the range is 0.95 to 1.05
\* of the price, as for the LiquidityProvider)
MarketMaker_act(agent, pool, step) ==
    IF step - agent.last_rebalance < agent.rebalance_frequency
    THEN Outcome(agent, pool, "", FALSE)
    ELSE LET removed == RemoveFromTolerant(agent, pool, Len(agent.positions))
             added == AddAround(removed.agent, removed.pool, step)
         IN  Outcome(added.agent, added.pool, "", removed.failed)

\* agent.act(pool, step) by the class of the agent
act(agent, pool, step, draw) ==
    IF agent.kind = "RandomTrader" THEN RandomTrader_act(agent, pool, step, draw)
    ELSE IF agent.kind = "TrendFollower" THEN TrendFollower_act(agent, pool, step)
    ELSE IF agent.kind = "LiquidityProvider" THEN LiquidityProvider_act(agent, pool, step)
    ELSE MarketMaker_act(agent, pool, step)

\* the draws open to an agent: only a RandomTrader draws
Draws(agent) == IF agent.kind = "RandomTrader" THEN TraderDraws ELSE {"none"}

----------------------------------------------------------------------------
(* Simulation Driver *)

\* the divisor of the recorded liquidity, 10**9
LIQUIDITY_RECORD_UNIT == 1000000000

\* self.pool.liquidity / 10**9, kept as the fraction it is
record_liquidity(pool_liquidity) == [num |-> pool_liquidity, den |-> LIQUIDITY_RECORD_UNIT]

\* the price floor of the records, 0.01
RECORD_PRICE_FLOOR == PriceScale \div 100

\* snapshot_price without the line price = max(0.01, price)
snapshot_price_NoFloor(pool) == PriceOf(pool.sqrt_price_x96)

\* the price run records: max(0.01, (sqrt_price_x96 / 2**96) ** 2)
snapshot_price(pool) == Max(RECORD_PRICE_FLOOR, PriceOf(pool.sqrt_price_x96))

\* the order in which `for agent in self.agents` visits the n agents
agent_order(n) == [k \in 1..n |-> k]

\* self.volume_history.append(step_volume)
RecordVolume(history, step_volume) == Append(history, step_volume)

Abs(x) == IF x < 0 THEN 0 - x ELSE x

\* token0_diff * price + token1_diff for one agent's turn
turn_volume(before, after, price) ==
    MulDivFloor(Abs(after.token0_balance - before.token0_balance), price, PriceScale)
        + Abs(after.token1_balance - before.token1_balance)

\* Simulator.add_agent, before the first run
AddAgent ==
    /\ run.pc = "idle" /\ step_count = 0
    /\ \E kind \in NextKinds(agents) :
           agents' = Append(agents, NewAgent(kind, AgentNames[Len(agents) + 1]))
    /\ UNCHANGED <<poolVars, last, conv, step_count, price_history,
                   liquidity_history, volume_history, run>>

\* a caller's agent.add_position(lower_tick, upper_tick, liquidity, pool) on a
\* liquidity agent that holds no position, before the first run
SetupAgentPosition ==
    /\ run.pc = "idle" /\ step_count = 0
    /\ \E i \in 1..Len(agents) :
           /\ agents[i].kind \notin Traders
           /\ agents[i].positions = <<>>
           /\ LET out == Agent_add_position(agents[i], Pool, SetupPosition.lower_tick,
                                            SetupPosition.upper_tick,
                                            SetupPosition.liquidity)
              IN  /\ Becomes(out.pool)
                  /\ agents' = [agents EXCEPT ![i] = out.agent]
    /\ last' = [NoCall EXCEPT !.op = "add"]
    /\ UNCHANGED <<conv, step_count, price_history, liquidity_history,
                   volume_history, run>>

\* a caller's pool.add_position(...) before the first run
SetupPool ==
    /\ run.pc = "idle" /\ step_count = 0
    /\ \E p \in SetupArgs, a \in SetupAmounts : AddCall(p[1], p[2], p[3], a)
    /\ UNCHANGED <<conv, simVars>>

\* simulator.run(steps): the call enters the loop, or returns at once for 0 steps
RunCall ==
    /\ run.pc = "idle"
    /\ \E steps \in RunSteps :
           /\ step_count + steps <= MaxSteps
           /\ run' = [NoRun EXCEPT !.pc = IF steps = 0 THEN "idle" ELSE "step",
                                   !.steps = steps, !.entered = step_count,
                                   !.initial = Pool]
    /\ UNCHANGED <<poolVars, last, conv, agents, step_count, price_history,
                   liquidity_history, volume_history>>

\* the head of the loop body: the step is counted and the price and the
\* liquidity, clamped at 0 in the pool itself, are recorded
StepBegin ==
    /\ run.pc = "step"
    /\ step_count' = step_count + 1
    /\ price_history' = Append(price_history, snapshot_price(Pool))
    /\ liquidity' = Max(0, liquidity)
    /\ liquidity_history' = Append(liquidity_history, record_liquidity(liquidity'))
    /\ run' = [run EXCEPT !.pc = "agents", !.price = snapshot_price(Pool),
                          !.step_volume = 0, !.acted = <<>>, !.failed = FALSE]
    /\ UNCHANGED <<sqrt_price_x96, tick, positions, ticks, last, conv, agents,
                   volume_history>>

\* one pass of the loop over the agents: the next agent acts and its volume is
\* added; an exception that leaves act leaves run
AgentTurn ==
    /\ run.pc = "agents"
    /\ Len(run.acted) < Len(agents)
    /\ LET i == agent_order(Len(agents))[Len(run.acted) + 1]
       IN  \E draw \in Draws(agents[i]) :
               LET out == act(agents[i], Pool, step_count, draw)
               IN  /\ Becomes(out.pool)
                   /\ agents' = [agents EXCEPT ![i] = out.agent]
                   /\ run' = IF out.raised # ""
                             THEN [run EXCEPT !.pc = "idle", !.raised = out.raised,
                                              !.acted = Append(@, i),
                                              !.failed = out.failed,
                                              !.failures = IF out.failed THEN @ + 1 ELSE @]
                             ELSE [run EXCEPT
                                     !.acted = Append(@, i),
                                     !.step_volume =
                                         @ + turn_volume(agents[i], out.agent, run.price),
                                     !.failed = out.failed,
                                     !.failures = IF out.failed THEN @ + 1 ELSE @]
    /\ UNCHANGED <<last, conv, step_count, price_history, liquidity_history,
                   volume_history>>

\* the end of the loop body: the volume of the step is recorded and run goes to
\* the next step or returns
StepEnd ==
    /\ run.pc = "agents"
    /\ Len(run.acted) = Len(agents)
    /\ volume_history' = RecordVolume(volume_history, run.step_volume)
    /\ run' = [run EXCEPT !.step = @ + 1,
                          !.pc = IF run.step + 1 = run.steps THEN "idle" ELSE "step"]
    /\ UNCHANGED <<poolVars, last, conv, agents, step_count, price_history,
                   liquidity_history>>

----------------------------------------------------------------------------
(* Specifications *)

Add(args, amounts) ==
    /\ \E p \in args, a \in amounts : AddCall(p[1], p[2], p[3], a)
    /\ UNCHANGED <<conv, simVars>>

Remove(args, amounts) ==
    /\ \E p \in args, a \in amounts : RemoveCall(p[1], p[2], p[3], a)
    /\ UNCHANGED <<conv, simVars>>

Swap ==
    /\ \E z \in BOOLEAN, a \in SwapAmounts : SwapCall(z, a)
    /\ UNCHANGED <<conv, simVars>>

\* any sequence of add_position (amount > 0), remove_position and swap calls
Next ==
    \/ Add(PoolArgs, AddAmounts)
    \/ Remove(PoolArgs, RemoveAmounts)
    \/ Swap

Spec == Init /\ [][Next]_vars

\* any sequence of add_position and remove_position calls, of any amounts
NextLedger ==
    \/ Add(LedgerArgs, LedgerAmounts)
    \/ Remove(LedgerArgs, RemoveAmounts)

SpecLedger == Init /\ [][NextLedger]_vars

\* add_position, remove_position and swap calls on ranges that end below the floor
NextFloor ==
    \/ Add(FloorArgs, AddAmounts)
    \/ Remove(FloorArgs, RemoveAmounts)
    \/ Swap

SpecFloor == Init /\ [][NextFloor]_vars

\* a pool on which a caller takes one tick through the converter
InitConverter ==
    /\ sqrt_price_x96 \in InitialSqrtPrices
    /\ liquidity = 0
    /\ tick = get_tick_at_sqrt_price(sqrt_price_x96)
    /\ positions = EmptyMap
    /\ ticks = EmptyMap
    /\ last = NoCall
    /\ SimulatorInit
    /\ \E t \in RoundTripTicks : conv = [NoConversion EXCEPT !.stage = "tick", !.tick = t]

\* pool.get_sqrt_price_at_tick(t)
ToSqrtPrice ==
    /\ conv.stage = "tick"
    /\ conv' = [conv EXCEPT !.stage = "sqrt",
                            !.sqrt_price = get_sqrt_price_at_tick(conv.tick)]
    /\ UNCHANGED <<poolVars, last, simVars>>

\* pool.get_tick_at_sqrt_price(s) on the sqrt price ToSqrtPrice returned
ToTick ==
    /\ conv.stage = "sqrt"
    /\ conv' = [conv EXCEPT !.stage = "back",
                            !.back = get_tick_at_fine_sqrt_price(conv.sqrt_price)]
    /\ UNCHANGED <<poolVars, last, simVars>>

NextConverter == ToSqrtPrice \/ ToTick

SpecConverter == InitConverter /\ [][NextConverter]_vars

\* an agent and a pool at the price 0.1089, outside any run
InitMirror ==
    /\ sqrt_price_x96 = 33
    /\ liquidity = 0
    /\ tick = get_tick_at_sqrt_price(sqrt_price_x96)
    /\ positions = EmptyMap
    /\ ticks = EmptyMap
    /\ last = NoCall
    /\ conv = NoConversion
    /\ agents = <<NewAgent("LiquidityProvider", AgentNames[1])>>
    /\ step_count = 0
    /\ price_history = <<>>
    /\ liquidity_history = <<>>
    /\ volume_history = <<>>
    /\ run = NoRun

\* agent.add_position(lower_tick, upper_tick, liquidity, pool)
MirrorAdd ==
    /\ Len(agents[1].positions) < MaxLocalPositions
    /\ \E p \in MirrorArgs, liq \in AddAmounts :
           LET out == Agent_add_position(agents[1], Pool, p[1], p[2], liq)
           IN  /\ Becomes(out.pool)
               /\ agents' = [agents EXCEPT ![1] = out.agent]
    /\ last' = [NoCall EXCEPT !.op = "add"]
    /\ UNCHANGED <<conv, step_count, price_history, liquidity_history,
                   volume_history, run>>

\* agent.remove_position(position_index, pool), position_index counted from 1
\* and also taken outside the list
MirrorRemove ==
    /\ \E position_index \in 0..(Len(agents[1].positions) + 1) :
           LET out == Agent_remove_position(agents[1], Pool, position_index)
           IN  /\ Becomes(out.pool)
               /\ agents' = [agents EXCEPT ![1] = out.agent]
               /\ last' = [NoCall EXCEPT !.op = "remove", !.raised = out.raised]
    /\ UNCHANGED <<conv, step_count, price_history, liquidity_history,
                   volume_history, run>>

NextMirror == MirrorAdd \/ MirrorRemove

SpecMirror == InitMirror /\ [][NextMirror]_vars

\* a trader and a pool at the price 0.1089, outside any run
InitTrade ==
    /\ sqrt_price_x96 = 33
    /\ liquidity = 0
    /\ tick = get_tick_at_sqrt_price(sqrt_price_x96)
    /\ positions = EmptyMap
    /\ ticks = EmptyMap
    /\ last = NoCall
    /\ conv = NoConversion
    /\ agents = <<NewAgent("RandomTrader", AgentNames[1])>>
    /\ step_count = 0
    /\ price_history = <<>>
    /\ liquidity_history = <<>>
    /\ volume_history = <<>>
    /\ run = NoRun

\* agent.execute_swap(pool, zero_for_one, amount); last notes the value returned
\* (result) and, when pool.swap was called, what it returned and crossed
TradeSwapCall(zero_for_one, amount) ==
    LET out == execute_swap(agents[1], Pool, zero_for_one, amount)
        called == execute_swap_result(agents[1], zero_for_one, amount)
        swapped == swap_simple(Pool, zero_for_one, amount)
    IN  /\ sqrt_price_x96 <= MaxSqrtPrice
        /\ out.pool.liquidity <= MaxLiquidity
        /\ Len(agents[1].trade_history) < MaxTrades
        /\ Becomes(out.pool)
        /\ agents' = [agents EXCEPT ![1] = out.agent]
        /\ last' = [op |-> "execute_swap", raised |-> "",
                    ret |-> IF called THEN swapped.ret ELSE <<0, 0>>,
                    crossed |-> IF called THEN swapped.crossed ELSE <<>>,
                    result |-> called]
        /\ UNCHANGED <<conv, step_count, price_history, liquidity_history,
                       volume_history, run>>

TradeSwap == \E z \in BOOLEAN, a \in TradeAmounts : TradeSwapCall(z, a)

\* add_position calls on the pool and execute_swap calls of the trader
NextTrade ==
    \/ Add(SetupArgs, AddAmounts)
    \/ TradeSwap

SpecTrade == InitTrade /\ [][NextTrade]_vars

\* a new pool at a sqrt price of 56 or 60 times 2**58 (ticks 884601 and 885981)
InitCeiling ==
    /\ sqrt_price_x96 \in CeilingInitialSqrtPrices
    /\ liquidity = 0
    /\ tick = get_tick_at_high_sqrt_price(sqrt_price_x96)
    /\ positions = EmptyMap
    /\ ticks = EmptyMap
    /\ last = NoCall
    /\ conv = NoConversion
    /\ SimulatorInit

\* pool.swap(False, amount_specified) near the largest tick
CeilingSwapCall(amount_specified) ==
    LET out == swap_simple_high(Pool, amount_specified)
    IN  /\ sqrt_price_x96 <= MaxHighSqrtPrice
        /\ out.self.liquidity <= MaxLiquidity
        /\ Becomes(out.self)
        /\ last' = [NoCall EXCEPT !.op = "swap", !.ret = out.ret, !.crossed = out.crossed]

CeilingSwap ==
    /\ \E a \in SwapAmounts : CeilingSwapCall(a)
    /\ UNCHANGED <<conv, simVars>>

\* add_position calls and upward swaps near the largest tick
NextCeiling ==
    \/ Add(CeilingArgs, AddAmounts)
    \/ CeilingSwap

SpecCeiling == InitCeiling /\ [][NextCeiling]_vars

\* a Simulator on a new pool
InitDriver ==
    /\ sqrt_price_x96 \in DriverInitialSqrtPrices
    /\ liquidity = 0
    /\ tick = get_tick_at_sqrt_price(sqrt_price_x96)
    /\ positions = EmptyMap
    /\ ticks = EmptyMap
    /\ last = NoCall
    /\ conv = NoConversion
    /\ SimulatorInit

\* agents are registered, positions set up and runs made
NextDriver ==
    \/ AddAgent
    \/ SetupAgentPosition
    \/ SetupPool
    \/ RunCall
    \/ StepBegin
    \/ AgentTurn
    \/ StepEnd

SpecDriver == InitDriver /\ [][NextDriver]_vars

----------------------------------------------------------------------------
(* Claims *)

\* Sum of the Tick Ledger deltas of the ticks at or below the current tick
LedgerLiquidity == SumOver(ticks, {t \in DOMAIN ticks : t <= tick})

\* Liquidity of the positions whose range [lower, upper) holds the current tick
InRangeLiquidity ==
    SumOver(positions, {k \in DOMAIN positions : k[2] <= tick /\ tick < k[3]})

\* C1: in every reachable state the active liquidity equals the sum of the Tick
\* Ledger deltas of all ticks <= the current tick, which is the liquidity of the
\* positions in range.
C1_LiquidityIsLedgerSum ==
    liquidity = LedgerLiquidity /\ liquidity = InRangeLiquidity

\* C2: after every add_position and remove_position, failed or not, the Tick
\* Ledger deltas sum to 0.
C2_ZeroSumLedger == SumOver(ticks, DOMAIN ticks) = 0

\* C2 witness: a removal went through and left a ledger with nonzero deltas
C2_Witness ==
    /\ last.op = "remove" /\ last.raised = ""
    /\ \E t \in DOMAIN ticks : ticks[t] # 0

\* C3: a swap, with the tick crossings it makes, never takes the active liquidity
\* from a non-negative value to a negative one, whatever the Tick Ledger holds.
C3_SwapKeepsLiquidityNonNegative ==
    [][(last'.op = "swap" /\ liquidity >= 0) => liquidity' >= 0]_vars

\* C3 witness: a swap crossed one tick, downwards, whose delta stands against more
\* liquidity than the pool can hold active here, and the liquidity ended at 0
C3_Witness ==
    /\ last.op = "swap" /\ Len(last.crossed) = 1
    /\ last.crossed[1] > tick
    /\ ticks[last.crossed[1]] < 0 - MaxLiquidity
    /\ liquidity = 0

\* C4: in every state reachable by add_position (amount > 0), remove_position
\* and swap calls, the active liquidity is >= 0.
C4_LiquidityNonNegative == liquidity >= 0

\* C5: from every reachable state, add_position(o, l, u, A) followed at once by
\* remove_position(o, l, u, A) succeeds and leaves the Position Ledger, the Tick
\* Ledger and the active liquidity as they were before the add.
C5_AddRemoveInverse ==
    \A p \in LedgerArgs, a \in AddAmounts :
        LET added == add_position(Pool, p[1], p[2], p[3], a)
            out == remove_position(added, p[1], p[2], p[3], a)
        IN  /\ out.raised = ""
            /\ out.self.positions = positions
            /\ out.self.ticks = ticks
            /\ out.self.liquidity = liquidity

\* C6: a remove_position whose key is not in the Position Ledger, or whose amount
\* is larger than the liquidity held, raises the invalid-position error and leaves
\* both ledgers, the active liquidity, the sqrt price and the tick unchanged.
C6_FailedRemovalIsAtomic ==
    [][\A p \in PoolArgs, a \in RemoveAmounts :
          (RemoveCall(p[1], p[2], p[3], a) /\ InvalidPosition(Pool, p, a))
          => /\ last'.raised = "ValueError"
             /\ UNCHANGED <<positions, ticks, liquidity, sqrt_price_x96, tick>>]_vars

\* C6 witness: a removal was refused on a pool that holds positions and liquidity
C6_Witness ==
    /\ last.op = "remove" /\ last.raised = "ValueError"
    /\ positions # EmptyMap /\ liquidity > 0

\* C7: a swap with amount_specified <= 0, or on a pool whose active liquidity is
\* 0, returns (0, 0) and leaves the sqrt price, the tick, the active liquidity and
\* both ledgers unchanged.
C7_SwapNoOp ==
    [][\A z \in BOOLEAN, a \in SwapAmounts :
          (last'.op = "swap" /\ (a <= 0 \/ liquidity = 0) /\ SwapCall(z, a))
          => /\ last'.ret = <<0, 0>>
             /\ UNCHANGED <<sqrt_price_x96, tick, liquidity, positions, ticks>>]_vars

\* C7 witness: a swap was a no-op on a pool with liquidity whose price, 0.01, is
\* below the floor
C7_Witness ==
    /\ last.op = "swap" /\ last.ret = <<0, 0>>
    /\ liquidity > 0
    /\ PriceOf(sqrt_price_x96) < MIN_PRICE

\* a swap that gets past the no-op test
Executes(z, a) == last'.op = "swap" /\ a > 0 /\ liquidity > 0 /\ SwapCall(z, a)

\* C8 as claimed: for any single swap of a positive amount, in either direction,
\* |newPrice - oldPrice| / oldPrice <= 0.1.
C8_BoundedImpact ==
    [][\A z \in BOOLEAN, a \in SwapAmounts :
          (last'.op = "swap" /\ a > 0 /\ SwapCall(z, a))
          => /\ 10 * (PriceOf(sqrt_price_x96') - PriceOf(sqrt_price_x96))
                   <= PriceOf(sqrt_price_x96)
             /\ 10 * (PriceOf(sqrt_price_x96) - PriceOf(sqrt_price_x96'))
                   <= PriceOf(sqrt_price_x96)]_vars

\* C8 as amended: for a swap of a positive amount from a price of at least 0.1,
\* the new price is at most 1.1 times the old one, and the price one unit of sqrt
\* price above the new one is more than 0.9 times the old one (the swap computes
\* a price within 10% and stores its square root cut to a whole sqrt price).
C8_BoundedImpactAboveFloor ==
    [][\A z \in BOOLEAN, a \in SwapAmounts :
          (last'.op = "swap" /\ a > 0 /\ PriceOf(sqrt_price_x96) >= PRICE_FLOOR
           /\ SwapCall(z, a))
          => /\ 10 * PriceOf(sqrt_price_x96') <= 11 * PriceOf(sqrt_price_x96)
             /\ 10 * PriceOf(sqrt_price_x96' + 1) > 9 * PriceOf(sqrt_price_x96)]_vars

\* C8 witness: a swap large enough for the cap sold token0 and left the pool at
\* sqrt price 33, which such a swap reaches only from sqrt price 35 (price 0.1225,
\* above the floor; 0.9 * 0.1225 = 0.11025, stored as 33)
C8_Witness ==
    /\ last.op = "swap" /\ last.ret[1] = 20000000
    /\ sqrt_price_x96 = 33

\* C9 as claimed: a swap that executes with zero_for_one never leaves the price
\* higher (and lowers it when it was above the floor); one without never leaves it
\* lower.
C9_PriceDirection ==
    [][\A z \in BOOLEAN, a \in SwapAmounts :
          Executes(z, a)
          => IF z
             THEN /\ sqrt_price_x96' <= sqrt_price_x96
                  /\ PriceOf(sqrt_price_x96) > PRICE_FLOOR
                         => sqrt_price_x96' < sqrt_price_x96
             ELSE sqrt_price_x96' >= sqrt_price_x96]_vars

\* C9 as amended: a swap that executes with zero_for_one from a price of at least
\* 0.1 never leaves the price higher, and lowers it when it was above 0.1; from a
\* price below 0.1 it leaves the price at the floor, int(sqrt(0.1) * Q96), which is
\* not below the old price; a swap without zero_for_one never leaves the price
\* lower.
C9_PriceDirectionAboveFloor ==
    [][\A z \in BOOLEAN, a \in SwapAmounts :
          Executes(z, a)
          => IF z
             THEN IF PriceOf(sqrt_price_x96) >= PRICE_FLOOR
                  THEN /\ sqrt_price_x96' <= sqrt_price_x96
                       /\ PriceOf(sqrt_price_x96) > PRICE_FLOOR
                              => sqrt_price_x96' < sqrt_price_x96
                  ELSE /\ sqrt_price_x96' = SqrtPriceOf(PRICE_FLOOR, 1)
                       /\ sqrt_price_x96' >= sqrt_price_x96
             ELSE sqrt_price_x96' >= sqrt_price_x96]_vars

\* C9 witness: a swap selling token1 (it returned a negative amount0) moved the
\* price above the sqrt price 33 the pool can start at
C9_Witness ==
    /\ last.op = "swap" /\ last.ret[1] < 0
    /\ sqrt_price_x96 > 33

\* C10 as claimed: every swap returns the specified amount, non-negative, as the
\* token given up and a non-positive amount as the token received.
C10_SignConvention ==
    [][\A z \in BOOLEAN, a \in SwapAmounts :
          (last'.op = "swap" /\ SwapCall(z, a))
          => IF z
             THEN last'.ret[1] = a /\ a >= 0 /\ last'.ret[2] <= 0
             ELSE last'.ret[2] = a /\ a >= 0 /\ last'.ret[1] <= 0]_vars

\* C10 as amended: every swap that executes (amount_specified > 0 and active
\* liquidity > 0) returns the specified amount as the token given up and a
\* non-positive amount as the token received; any other swap returns (0, 0).
C10_SignConventionWhenExecuted ==
    [][\A z \in BOOLEAN, a \in SwapAmounts :
          (last'.op = "swap" /\ SwapCall(z, a))
          => IF a > 0 /\ liquidity > 0
             THEN IF z
                  THEN last'.ret[1] = a /\ last'.ret[2] <= 0
                  ELSE last'.ret[2] = a /\ last'.ret[1] <= 0
             ELSE last'.ret = <<0, 0>>]_vars

\* C10 witness: a swap selling token0 returned the amount given and a credit
C10_Witness ==
    /\ last.op = "swap"
    /\ last.ret[1] = 3000000 /\ last.ret[2] < 0

\* C11: add_position(owner, l, u, A) raises the active liquidity by exactly A when
\* the current tick lies in [l', u') for the spacing-aligned l', u', leaves it
\* unchanged otherwise, and never changes the sqrt price or the tick.
C11_InRangeAdd ==
    [][\A p \in LedgerArgs, a \in LedgerAmounts :
          (last'.op = "add" /\ AddCall(p[1], p[2], p[3], a))
          => /\ liquidity' =
                  IF AlignTick(p[2]) <= tick /\ tick < AlignTick(p[3])
                  THEN liquidity + a ELSE liquidity
             /\ UNCHANGED <<sqrt_price_x96, tick>>]_vars

\* C11 witness: the only position is the one given as [-22150, -21000) at tick
\* -22175, filed as [-22200, -21000), and its liquidity is active
C11_Witness ==
    /\ last.op = "add" /\ tick = -22175
    /\ positions = Put(EmptyMap, <<"lp1", -22200, -21000>>, 1)
    /\ liquidity = 1

\* C17: a swap that crosses one tick, of net delta d, leaves the active liquidity
\* at liquidity + d when it ran with zero_for_one false (price moving up) and at
\* max(0, liquidity - d) when it ran with zero_for_one true (price moving down).
C17_CrossingDirection ==
    [][\A z \in BOOLEAN, a \in SwapAmounts :
          (last'.op = "swap" /\ SwapCall(z, a) /\ Len(last'.crossed) = 1)
          => LET d == ticks[last'.crossed[1]]
             IN  liquidity' = IF z THEN Max(0, liquidity - d) ELSE liquidity + d]_vars

\* the ticks of S in the order a price moving down (descending) or up meets them
TraversalOrder(S, descending) == sorted_ticks(S, descending)

\* C18: a swap that takes the tick from oldTick down to newTick crosses exactly
\* the Tick Ledger entries t with newTick < t <= oldTick, in descending order;
\* one that takes it up crosses exactly those with oldTick <= t < newTick, in
\* ascending order; each once; one that leaves the tick unchanged crosses none.
C18_CrossedSetAndOrder ==
    [][\A z \in BOOLEAN, a \in SwapAmounts :
          (last'.op = "swap" /\ SwapCall(z, a))
          => last'.crossed =
                IF tick' < tick
                THEN TraversalOrder({t \in DOMAIN ticks : tick' < t /\ t <= tick}, TRUE)
                ELSE IF tick' > tick
                THEN TraversalOrder({t \in DOMAIN ticks : tick <= t /\ t < tick'}, FALSE)
                ELSE <<>>]_vars

\* the liquidity of the ledger positions whose lower (i = 2) or upper (i = 3)
\* tick is t
BoundLiquidity(i, t) ==
    LET K == {k \in DOMAIN positions : k[i] = t}
    IN  SumOver([k \in K |-> positions[k]], K)

\* C19: after any add_position and successful remove_position calls, every Tick
\* Ledger entry t equals the liquidity of the positions whose lower tick is t
\* minus the liquidity of the positions whose upper tick is t.
C19_PerTickDelta ==
    \A t \in DOMAIN ticks : ticks[t] = BoundLiquidity(2, t) - BoundLiquidity(3, t)

\* C19 witness: after a removal that succeeded, tick -22800 is the lower tick of
\* one position and the upper tick of another that holds more, and its entry is
\* negative
C19_Witness ==
    /\ last.op = "remove" /\ last.raised = ""
    /\ <<"lp1", -22800, -21000>> \in DOMAIN positions
    /\ <<"lp1", -21000, -22800>> \in DOMAIN positions
    /\ ticks[-22800] < 0

\* C20: in every reachable state, after construction and after every swap, the
\* tick of the pool is the converter applied to the sqrt price of the pool.
C20_TickMatchesSqrtPrice ==
    tick = get_tick_at_sqrt_price(sqrt_price_x96)

\* C20 witness: a swap selling token1 executed from the price 0.01, whose
\* starting price it clamped to 0.05, and left the sqrt price of 0.05 or above
C20_Witness ==
    /\ last.op = "swap" /\ last.ret[2] > 0
    /\ sqrt_price_x96 \in {SqrtPriceOf(MIN_PRICE, 1), SqrtPriceOf(MIN_PRICE, 1) + 1}

TurnPending == run.pc = "agents" /\ Len(run.acted) < Len(agents)

\* run returns or is left by an exception in this step
RunEnds == run.pc # "idle" /\ run'.pc = "idle"

\* C12: a remove_position that fails inside an agent's turn aborts neither the
\* step nor the run: after such a turn no exception has left act, the agent is
\* counted as having acted and the loop over the agents goes on; and a run that
\* returns has completed all its steps, with a volume recorded for each
C12_FailedRemovalTolerated ==
    [][ /\ (TurnPending /\ run'.failed) =>
               /\ run'.raised = ""
               /\ run'.pc = "agents"
               /\ Len(run'.acted) = Len(run.acted) + 1
        /\ (RunEnds /\ run'.raised = "") =>
               /\ run'.step = run'.steps
               /\ step_count' = run'.entered + run'.steps
               /\ Len(volume_history') = step_count' ]_vars

\* a run of at least one step has returned although the first of two agents, a
\* LiquidityProvider, failed to remove the position it still holds
C12_Witness ==
    /\ run.pc = "idle" /\ run.steps > 0 /\ run.step = run.steps
    /\ run.raised = ""
    /\ run.failures > 0
    /\ Len(agents) = 2
    /\ agents[1].kind = "LiquidityProvider"
    /\ agents[1].positions = <<SetupPosition>>
    /\ Len(volume_history) = step_count

\* a run of at least one step on a Simulator without agents is in progress or
\* has ended
NoAgentsRun == agents = <<>> /\ run.steps > 0

\* the records this run has appended to a history
RunRecords(history) == (run.entered + 1)..Len(history)

\* run has returned with exactly run.steps records appended to each history
ExactlyNRecords ==
    (run.pc = "idle") =>
        /\ Len(price_history) = run.entered + run.steps
        /\ Len(liquidity_history) = run.entered + run.steps
        /\ Len(volume_history) = run.entered + run.steps

BetweenSteps == run.pc \in {"idle", "step"}

\* each history holds one entry per step started
OneRecordPerStep ==
    /\ Len(price_history) = step_count
    /\ Len(liquidity_history) = step_count
    /\ Len(volume_history) = step_count

\* seq is the first Len(seq) entries of longer
IsPrefix(seq, longer) ==
    Len(seq) <= Len(longer) /\ SubSeq(longer, 1, Len(seq)) = seq

\* C14: whenever the driver is between steps or a run call has ended, the three
\* histories have the length step_count, and no step of the driver changes or
\* removes an entry a history already holds
C14_OneRecordPerStep ==
    [][ /\ BetweenSteps => OneRecordPerStep
        /\ BetweenSteps' => OneRecordPerStep'
        /\ IsPrefix(price_history, price_history')
        /\ IsPrefix(liquidity_history, liquidity_history')
        /\ IsPrefix(volume_history, volume_history') ]_vars

\* C15: run(N) ends with N steps made; the head of a step records the price of
\* the pool as no agent has acted yet in that step and touches no agent; each
\* turn invokes the next agent in registration order and touches no other agent;
\* and the loop over the agents is left only when every agent was invoked once,
\* in registration order
C15_StepOrdering ==
    [][ /\ RunEnds =>
               /\ run'.step = run'.steps
               /\ step_count' = run'.entered + run'.steps
        /\ (run.pc = "step") =>
               /\ step_count' = step_count + 1
               /\ price_history' = Append(price_history, snapshot_price(Pool))
               /\ run'.acted = <<>>
               /\ agents' = agents
        /\ TurnPending =>
               /\ run'.acted = Append(run.acted, Len(run.acted) + 1)
               /\ \A j \in 1..Len(agents) :
                      j # Len(run.acted) + 1 => agents'[j] = agents[j]
        /\ (run.pc = "agents" /\ run'.pc # "agents") =>
               run'.acted = [k \in 1..Len(agents) |-> k] ]_vars

\* C21: every position in the Position Ledger has its lower tick strictly below
\* its upper tick, whatever (lower, upper) arguments add_position was given
C21_PositionOrdering ==
    \A key \in DOMAIN positions : key[2] < key[3]

\* C22: every lower and upper tick of a position in the Position Ledger and
\* every key of the Tick Ledger is a multiple of the tick spacing, whatever
\* arguments add_position and remove_position were given
C22_Alignment ==
    /\ \A key \in DOMAIN positions :
           key[2] % TickSpacing = 0 /\ key[3] % TickSpacing = 0
    /\ \A t \in DOMAIN ticks : t % TickSpacing = 0

\* a position added with the lower tick -22150 is held under -22200, and a
\* remove_position with ticks that are not aligned has just been refused
C22_Witness ==
    /\ <<"lp1", -22200, -21000>> \in DOMAIN positions
    /\ -22200 \in DOMAIN ticks
    /\ -22150 \notin DOMAIN ticks
    /\ last.op = "remove" /\ last.raised = "ValueError"

\* C23: the Position Ledger holds no entry whose liquidity is 0 or negative
C23_NoEmptyPositions ==
    \A key \in DOMAIN positions : positions[key] > 0

\* C27: both boundary ticks of every position in the Position Ledger are keys of
\* the Tick Ledger, and no remove_position has failed on a missing tick entry
C27_BoundaryTicksKept ==
    /\ \A key \in DOMAIN positions :
           key[2] \in DOMAIN ticks /\ key[3] \in DOMAIN ticks
    /\ last.raised # "KeyError"

\* a remove_position has passed its check and left a position behind whose two
\* ticks have the net delta 0 and are still keys of the Tick Ledger
C27_Witness ==
    /\ last.op = "remove" /\ last.raised = ""
    /\ \E key \in DOMAIN positions :
           /\ key[2] \in DOMAIN ticks /\ key[3] \in DOMAIN ticks
           /\ ticks[key[2]] = 0 /\ ticks[key[3]] = 0

\* the agent whose turn is pending is a trader: its act calls nothing of the
\* pool but swap
TraderTurnPending ==
    TurnPending /\ agents[Len(run.acted) + 1].kind \in Traders

\* C25: the swaps of the traders, tick crossings included, the snapshot at the
\* head of a step and the other steps of the driver leave every tick entry and
\* every position as they are; the ledgers change only in the add_position calls
\* of the setup and in the turns of the liquidity agents, which call
\* add_position and remove_position
C25_LedgerFrame ==
    [][ (\/ TraderTurnPending
         \/ run.pc = "step"
         \/ (run.pc = "agents" /\ ~TurnPending)
         \/ (run.pc = "idle" /\ step_count > 0))
            => (positions' = positions /\ ticks' = ticks) ]_vars

\* steps were made, and a trader's swap has taken the tick from inside the range
\* of the position set up on the pool to below its lower tick, whose entry in the
\* Tick Ledger still holds the position's liquidity
C25_Witness ==
    /\ step_count > 0
    /\ sqrt_price_x96 > 5
    /\ <<"lp0", -22800, -21000>> \in DOMAIN positions
    /\ tick < -22800
    /\ ticks[-22800] = positions[<<"lp0", -22800, -21000>>]
    /\ \E i \in 1..Len(agents) :
           agents[i].kind \in Traders /\ agents[i].token0_balance < TraderBalance

\* the liquidity the list local records for the range of its entry i
LocalLiquidity(local, i) ==
    SumOver([j \in 1..Len(local) |-> local[j].liquidity],
            {j \in 1..Len(local) : /\ local[j].lower_tick = local[i].lower_tick
                                   /\ local[j].upper_tick = local[i].upper_tick})

\* C26: for every agent and every position in its list, the Position Ledger
\* holds an entry for the agent's name and the position's ticks, with the
\* liquidity the list records for that range (so the position can be removed)
C26_AgentMirror ==
    \A a \in 1..Len(agents) :
        \A i \in 1..Len(agents[a].positions) :
            LET local == agents[a].positions
                key == <<agents[a].name, local[i].lower_tick, local[i].upper_tick>>
            IN  /\ key \in DOMAIN positions
                /\ positions[key] = LocalLiquidity(local, i)

\* the balance of the token execute_swap takes in
InputBalance(agent, zero_for_one) ==
    IF zero_for_one THEN agent.token0_balance ELSE agent.token1_balance

\* C28: an execute_swap with an amount above the agent's balance of the input
\* token returns False and leaves the pool, the balances and the trade history
\* as they are; any other execute_swap returns True, appends exactly one entry
\* to the trade history, keeps the earlier entries, takes the amounts the pool
\* returned from the balances, and leaves the input-token balance at 0 or above
C28_SwapBookkeeping ==
    [][ \A z \in BOOLEAN, a \in TradeAmounts :
            (last'.op = "execute_swap" /\ TradeSwapCall(z, a)) =>
                IF InputBalance(agents[1], z) < a
                THEN /\ ~last'.result
                     /\ agents' = agents
                     /\ poolVars' = poolVars
                ELSE /\ last'.result
                     /\ Len(agents'[1].trade_history)
                            = Len(agents[1].trade_history) + 1
                     /\ SubSeq(agents'[1].trade_history, 1,
                               Len(agents[1].trade_history))
                            = agents[1].trade_history
                     /\ agents'[1].token0_balance
                            = agents[1].token0_balance - last'.ret[1]
                     /\ agents'[1].token1_balance
                            = agents[1].token1_balance - last'.ret[2]
                     /\ InputBalance(agents'[1], z) >= 0 ]_vars

\* an execute_swap above the balance has just been refused, after one that spent
\* part of that balance had been recorded in the trade history
C28_Witness ==
    /\ last.op = "execute_swap" /\ ~last.result
    /\ Len(agents[1].trade_history) > 0
    /\ \E k \in 1..Len(agents[1].trade_history) :
           agents[1].trade_history[k].amount_in = 20000000
    /\ \/ agents[1].token0_balance = TraderBalance - 20000000
       \/ agents[1].token1_balance = TraderBalance - 20000000

\* C24 (tick range): after any sequence of swaps from a valid initial price the
\* pool's tick is within [MIN_TICK, MAX_TICK] and its sqrt price is at least 1
C24_TickRange ==
    /\ tick >= MIN_TICK
    /\ tick <= MAX_TICK
    /\ sqrt_price_x96 >= 1

============================================================================
